---- MODULE Spec2Model ----
(***************************************************************************)
(* A model of mlforge.Pipeline (src/mlforge/mlforge.py): the step parser,  *)
(* the callable resolver, the argument builder, the step executor and the  *)
(* run loop, over a small universe of Python values.                       *)
(***************************************************************************)
EXTENDS Integers, Sequences, FiniteSets, TLC

VARIABLES
    pipeline,   \* self.pipeline: the list of Stage records
    hostAttrs,  \* the instance attributes of self.host (name -> value)
    objects_,   \* self.objects_: the object registry (name -> value)
    runState,   \* run(): "running", or "done" or "failed" as the last call ended;
                \* "idle" before the first call and after a stage list is loaded
    pos,        \* number of stages the current run() has completed
    raised,     \* the exception the last operation raised ([exc |-> ""] if none)
    calls,      \* every invocation made by _run_step, in order
    nInst,      \* number of instances constructed so far
    nIds,       \* number of stage ids drawn from the random generator so far
    runs,       \* number of calls of run() so far
    pbar,       \* self._pbar and how often it was created and closed
    probe       \* the last direct call of a helper and its result

vars == <<pipeline, hostAttrs, objects_, runState, pos, raised, calls, nInst,
          nIds, runs, pbar, probe>>

----------------------------------------------------------------------------
(* Bounds of the model.                                                    *)

MaxTupleLen == 5
MaxStages == 3
MaxListLen == 3
MaxRuns == 2
MaxLoadLen == 2
MaxConfigLen == 2
MaxIds == 3

(* The longest tuple _parse_step takes apart.                              *)
ParsedLen == 4

----------------------------------------------------------------------------
(* Python values. k is the kind, v the name (or the class), m the member   *)
(* name of a function or bound method, n an instance number or an integer. *)

Val(k, v, m, n) == [k |-> k, v |-> v, m |-> m, n |-> n]

NoneV == Val("none", "", "", 0)
Empty == Val("empty", "", "", 0)
Str(s) == Val("str", s, "", 0)
IntV(i) == Val("int", "", "", i)
FalseV == Val("bool", "False", "", 0)
TypeRef(c) == Val("type", c, "", 0)
Dict(d) == Val("dict", d, "", 0)
ListV(d) == Val("list", d, "", 0)
Module(s) == Val("module", s, "", 0)
Func(owner, name) == Val("func", owner, name, 0)
Tuple(el) == [k |-> "tuple", el |-> el]
Bound(c, name, i) == Val("bound", c, name, i)
Inst(c, i) == Val("inst", c, "", i)

IsTuple(x) == x.k = "tuple"
IsStr(x) == x.k = "str"
IsType(x) == x.k = "type"
IsDict(x) == x.k = "dict"
IsNone(x) == x.k = "none"
Hashable(x) == x.k \notin {"dict", "list"}
IsCallable(x) == x.k \in {"func", "bound", "type"}

Param(name, default) == [name |-> name, default |-> default]

EmptyMap == [x \in {} |-> NoneV]

Get(f, key) == IF key \in DOMAIN f THEN f[key] ELSE NoneV

SetItem(f, key, value) ==
    [x \in DOMAIN f \cup {key} |-> IF x = key THEN value ELSE f[x]]

(* str.split('.') over the names of the model.                             *)
Split(s) ==
    CASE s = "obj.compute" -> <<"obj", "compute">>
      [] s = "zz.compute" -> <<"zz", "compute">>
      [] s = "obj.inner.compute" -> <<"obj", "inner", "compute">>
      [] OTHER -> <<s>>

HasDot(s) == Len(Split(s)) > 1

----------------------------------------------------------------------------
(* The user's code: the classes and functions a pipeline can refer to.     *)

HostObj == Inst("Host", 0)

(* Stage: the dataclass of the module, one field per parameter.            *)
StageFields ==
    << Param("_num", NoneV), Param("_id", NoneV), Param("attribute_name", NoneV),
       Param("method_name", NoneV), Param("_method_call", NoneV),
       Param("class_name", NoneV), Param("_parameters", NoneV),
       Param("arguments", NoneV) >>

(* The declared parameters of a function, the receiver included.           *)
FuncParams(f) ==
    CASE f = Func("SomeClass", "__init__") ->
            <<Param("self", Empty), Param("param1", NoneV), Param("param2", FalseV)>>
      [] f = Func("SomeClass", "method_name") -> <<Param("self", Empty)>>
      [] f = Func("SomeClass", "compute") -> <<Param("self", Empty)>>
      [] f = Func("SomeClass", "fit") -> <<Param("self", Empty)>>
      [] f = Func("LocalClass", "__init__") -> <<Param("self", Empty)>>
      [] f = Func("Inner", "compute") -> <<Param("self", Empty)>>
      [] f = Func("Stage", "__init__") -> <<Param("self", Empty)>> \o StageFields
      [] f = Func("Pipeline", "run") -> <<Param("self", Empty)>>
      [] f = Func("Pipeline", "show") -> <<Param("self", Empty)>>
      [] f = Func("Host", "method_name") ->
            <<Param("self", Empty), Param("param1", Empty)>>
      [] f = Func("Host", "needs_x") -> <<Param("self", Empty), Param("x", Empty)>>
      [] f = Func("Host", "get_class") -> <<Param("self", Empty)>>
      [] f = Func("Host", "use_types") ->
            <<Param("self", Empty), Param("types", Empty)>>
      [] OTHER -> <<>>

(* What a function of the user's code returns.                             *)
FuncReturn(f) ==
    CASE f.m = "method_name" -> Str("done")
      [] f.m = "compute" -> Str("computed")
      [] f.m = "fit" -> NoneV
      [] f.m = "needs_x" -> Str("x")
      [] f.m = "get_class" -> TypeRef("SomeClass")
      [] f.m = "use_types" -> Str("used")
      [] OTHER -> NoneV

(* The attributes a class object has (hasattr(C, name)).                   *)
ClassMembers(c) ==
    CASE c = "SomeClass" ->
            [x \in {"method_name", "compute", "fit", "count", "inner"} |->
                IF x = "count" THEN IntV(0)
                ELSE IF x = "inner" THEN Inst("Inner", 0)
                ELSE Func("SomeClass", x)]
      [] c = "Inner" -> [x \in {"compute"} |-> Func("Inner", x)]
      [] c = "Host" ->
            [x \in {"method_name", "needs_x", "get_class", "use_types"} |->
                Func("Host", x)]
      [] OTHER -> EmptyMap

(* globals() of mlforge.py, as far as the model's names reach.             *)
Globals == [x \in {"types", "Stage"} |->
                IF x = "types" THEN Module("types") ELSE TypeRef("Stage")]

(* C.__module__ and the namespace of that module. LocalClass is defined in *)
(* the body of a function, so its module has no attribute of its name.     *)
ClassModule(c) == IF c = "Stage" THEN "mlforge" ELSE "__main__"

ModuleAttrs(mod) ==
    IF mod = "mlforge" THEN Globals
    ELSE [x \in {"SomeClass", "Host"} |-> TypeRef(x)]

(* The attributes of the Pipeline object itself (hasattr(self, name)).     *)
PipelineMembers ==
    [x \in {"run", "show", "host", "verbose"} |->
        CASE x = "run" -> Bound("Pipeline", "run", 0)
          [] x = "show" -> Bound("Pipeline", "show", 0)
          [] x = "host" -> HostObj
          [] x = "verbose" -> FalseV]

(* hasattr / getattr on a value. An instance: its own attributes first     *)
(* (only the host has any in the model), then the members of its class,    *)
(* functions bound to it. A class: its members as they are.                *)
InstAttrs(obj) == IF obj = HostObj THEN hostAttrs ELSE EmptyMap

HasAttr(obj, name) ==
    \/ /\ obj.k = "inst"
       /\ \/ name \in DOMAIN InstAttrs(obj)
          \/ name \in DOMAIN ClassMembers(obj.v)
    \/ /\ obj.k = "type"
       /\ name \in DOMAIN ClassMembers(obj.v)

GetAttr(obj, name) ==
    IF obj.k = "type" THEN ClassMembers(obj.v)[name]
    ELSE IF name \in DOMAIN InstAttrs(obj) THEN InstAttrs(obj)[name]
    ELSE LET mem == ClassMembers(obj.v)[name]
         IN IF mem.k = "func" THEN Bound(obj.v, name, obj.n) ELSE mem

----------------------------------------------------------------------------
(* Results of operations that may raise.                                   *)

Ok(v) == [exc |-> "", val |-> v, about |-> <<>>]
Raise(e, about) == [exc |-> e, val |-> NoneV, about |-> about]

----------------------------------------------------------------------------
(* Pipeline._get_callable_method                                           *)

(* class_name is a class: only the class is searched.                      *)
ClassScoped(method_name, class_name) ==
    IF ~IsNone(method_name)
    THEN IF method_name.v \in DOMAIN ClassMembers(class_name.v)
         THEN Ok(ClassMembers(class_name.v)[method_name.v])
         ELSE Ok(NoneV)
    ELSE LET module == ModuleAttrs(ClassModule(class_name.v))
         IN IF class_name.v \in DOMAIN module
            THEN Ok(module[class_name.v])
            ELSE Raise("AttributeError", <<class_name>>)

DottedLookupWholeName(name) ==
    LET parts == Split(name)
    IN IF Len(parts) # 2
       THEN Raise("ValueError", <<Str(name)>>)
       ELSE IF HasAttr(HostObj, name)
       THEN LET obj == GetAttr(HostObj, name)
            IN IF HasAttr(obj, parts[2])
               THEN Ok(GetAttr(obj, parts[2]))
               ELSE Raise("AttributeError", <<Str(parts[2])>>)
       ELSE Raise("ValueError", <<Str(parts[1])>>)

(* 'object.method': the object is an attribute of the host.                *)
DottedLookup(name) ==
    LET parts == Split(name)
    IN IF Len(parts) # 2
       THEN Raise("ValueError", <<Str(name)>>)
       ELSE IF HasAttr(HostObj, parts[1])
       THEN LET obj == GetAttr(HostObj, parts[1])
            IN IF HasAttr(obj, parts[2])
               THEN Ok(GetAttr(obj, parts[2]))
               ELSE Raise("AttributeError", <<Str(parts[2])>>)
       ELSE Raise("ValueError", <<Str(parts[1])>>)

(* No class: the host, the pipeline object, the globals, a dotted path.    *)
ScopedSearchPipelineFirst(name) ==
    IF name \in DOMAIN PipelineMembers THEN Ok(PipelineMembers[name])
    ELSE IF HasAttr(HostObj, name) THEN Ok(GetAttr(HostObj, name))
    ELSE IF name \in DOMAIN Globals THEN Ok(Globals[name])
    ELSE IF HasDot(name) THEN DottedLookup(name)
    ELSE Ok(NoneV)

ScopedSearch(name) ==
    IF HasAttr(HostObj, name) THEN Ok(GetAttr(HostObj, name))
    ELSE IF name \in DOMAIN PipelineMembers THEN Ok(PipelineMembers[name])
    ELSE IF name \in DOMAIN Globals THEN Ok(Globals[name])
    ELSE IF HasDot(name) THEN DottedLookup(name)
    ELSE Ok(NoneV)

GetCallableMethodAnyClassRef(method_name, class_name) ==
    IF ~(IsNone(method_name) \/ IsStr(method_name))
    THEN Raise("AssertionError", <<method_name>>)
    ELSE IF ~IsNone(class_name) /\ IsType(class_name)
    THEN ClassScoped(method_name, class_name)
    ELSE IF IsNone(method_name)
    THEN Raise("TypeError", <<method_name>>)
    ELSE ScopedSearch(method_name.v)

GetCallableMethod(method_name, class_name) ==
    IF ~(IsNone(method_name) \/ IsStr(method_name))
    THEN Raise("AssertionError", <<method_name>>)
    ELSE IF ~IsNone(class_name) /\ IsType(class_name)
    THEN ClassScoped(method_name, class_name)
    ELSE IF ~IsNone(class_name)
    THEN Raise("AttributeError", <<class_name>>)
    ELSE IF IsNone(method_name)
    THEN Raise("TypeError", <<method_name>>)
    ELSE ScopedSearch(method_name.v)

----------------------------------------------------------------------------
(* Pipeline._parse_step                                                    *)

Fields(a, m, c, p) ==
    [attribute_name |-> a, method_name |-> m, class_name |-> c, arguments |-> p]

BadStep(fs) == Raise("ValueError", <<fs>>)

WrapStep(forge_step) ==
    IF ~IsTuple(forge_step) THEN Tuple(<<forge_step>>) ELSE forge_step

ParseLen1(fs) ==
    LET e == fs.el
    IN IF IsStr(e[1]) THEN Ok(Fields(NoneV, e[1], NoneV, NoneV))
       ELSE IF IsType(e[1]) THEN Ok(Fields(NoneV, NoneV, e[1], NoneV))
       ELSE BadStep(fs)

ParseLen2Swapped(fs) ==
    LET e == fs.el
    IN IF IsType(e[2])
       THEN IF IsStr(e[1]) /\ GetCallableMethod(e[1], e[2]).val # NoneV
            THEN Ok(Fields(NoneV, e[1], e[2], NoneV))
            ELSE IF IsStr(e[1]) /\ GetCallableMethod(e[1], e[2]).val = NoneV
            THEN Ok(Fields(e[1], NoneV, e[2], NoneV))
            ELSE BadStep(fs)
       ELSE IF IsDict(e[2]) /\ IsStr(e[1])
       THEN Ok(Fields(NoneV, e[1], NoneV, e[2]))
       ELSE IF IsStr(e[1]) /\ IsStr(e[2])
       THEN Ok(Fields(e[2], e[1], NoneV, NoneV))
       ELSE BadStep(fs)

ParseLen2(fs) ==
    LET e == fs.el
    IN IF IsType(e[2])
       THEN IF IsStr(e[1]) /\ GetCallableMethod(e[1], e[2]).val # NoneV
            THEN Ok(Fields(NoneV, e[1], e[2], NoneV))
            ELSE IF IsStr(e[1]) /\ GetCallableMethod(e[1], e[2]).val = NoneV
            THEN Ok(Fields(e[1], NoneV, e[2], NoneV))
            ELSE BadStep(fs)
       ELSE IF IsDict(e[2]) /\ IsStr(e[1])
       THEN Ok(Fields(NoneV, e[1], NoneV, e[2]))
       ELSE IF IsStr(e[1]) /\ IsStr(e[2])
       THEN Ok(Fields(e[1], e[2], NoneV, NoneV))
       ELSE BadStep(fs)

ParseLen3(fs) ==
    LET e == fs.el
    IN IF ~IsDict(e[3]) THEN BadStep(fs)
       ELSE IF IsStr(e[1]) /\ IsStr(e[2])
       THEN Ok(Fields(e[1], e[2], NoneV, e[3]))
       ELSE LET found == GetCallableMethod(e[1], e[2])
            IN IF found.exc # "" THEN Raise(found.exc, found.about)
               ELSE IF found.val # NoneV /\ IsType(e[2])
               THEN Ok(Fields(NoneV, e[1], e[2], e[3]))
               ELSE IF found.val = NoneV /\ IsType(e[2])
               THEN Ok(Fields(e[1], NoneV, e[2], e[3]))
               ELSE BadStep(fs)

ParseLen4(fs) ==
    LET e == fs.el
    IN IF IsStr(e[2]) /\ IsType(e[3]) /\ IsDict(e[4])
       THEN Ok(Fields(e[1], e[2], e[3], e[4]))
       ELSE BadStep(fs)

ParseStep(forge_step) ==
    LET fs == WrapStep(forge_step)
    IN IF Len(fs.el) = 1 THEN ParseLen1(fs)
       ELSE IF Len(fs.el) = 2 THEN ParseLen2(fs)
       ELSE IF Len(fs.el) = 3 THEN ParseLen3(fs)
       ELSE IF Len(fs.el) = 4 THEN ParseLen4(fs)
       ELSE Ok(Fields(NoneV, NoneV, NoneV, NoneV))

----------------------------------------------------------------------------
(* The option mappings (dict literals) a step can carry.                   *)

DictItems(d) ==
    CASE d = "d_lit" -> [x \in {"param1"} |-> Str("value1")]
      [] d = "d_obj" -> [x \in {"param1"} |-> Str("obj")]
      [] d = "d_list" -> [x \in {"param1"} |-> ListV("X")]
      [] d = "d_extra" -> [x \in {"param1", "other"} |-> Str("value1")]
      [] OTHER -> EmptyMap

----------------------------------------------------------------------------
(* Pipeline._get_method_signature: inspect.signature, as name -> default.  *)

SeqTail(q) == IF q = <<>> THEN <<>> ELSE Tail(q)

GetMethodSignature(method_call) ==
    CASE method_call.k = "func" -> Ok(FuncParams(method_call))
      [] method_call.k = "bound" ->
            Ok(SeqTail(FuncParams(Func(method_call.v, method_call.m))))
      [] method_call.k = "type" ->
            Ok(SeqTail(FuncParams(Func(method_call.v, "__init__"))))
      [] OTHER -> Raise("TypeError", <<method_call>>)

(* run() pops the key 'self'.                                              *)
StripSelf(parameters) == SelectSeq(parameters, LAMBDA q : q.name # "self")

----------------------------------------------------------------------------
(* Pipeline._build_params                                                  *)

InArguments(parameter, method_arguments) ==
    /\ ~IsNone(method_arguments)
    /\ parameter \in DOMAIN DictItems(method_arguments.v)

InRegistry(value) == IsStr(value) /\ value.v \in DOMAIN objects_

FromArgumentsLiteral(value) == value

FromArguments(value) ==
    IF ~Hashable(value) THEN value
    ELSE IF InRegistry(value) THEN objects_[value.v]
    ELSE value

SatisfiableByNone(q, method_arguments) ==
    \/ InArguments(q.name, method_arguments)
    \/ HasAttr(HostObj, q.name)
    \/ q.name \in DOMAIN Globals
    \/ q.default # NoneV

Satisfiable(q, method_arguments) ==
    \/ InArguments(q.name, method_arguments)
    \/ HasAttr(HostObj, q.name)
    \/ q.name \in DOMAIN Globals
    \/ q.default # Empty

ParamValueHostFirst(q, method_arguments) ==
    IF HasAttr(HostObj, q.name) THEN GetAttr(HostObj, q.name)
    ELSE IF InArguments(q.name, method_arguments)
    THEN FromArguments(DictItems(method_arguments.v)[q.name])
    ELSE IF q.name \in DOMAIN Globals THEN Globals[q.name]
    ELSE q.default

ParamValue(q, method_arguments) ==
    IF InArguments(q.name, method_arguments)
    THEN FromArguments(DictItems(method_arguments.v)[q.name])
    ELSE IF HasAttr(HostObj, q.name) THEN GetAttr(HostObj, q.name)
    ELSE IF q.name \in DOMAIN Globals THEN Globals[q.name]
    ELSE q.default

BuildParamsPassingExtras(method_parameters, method_arguments) ==
    LET idx == DOMAIN method_parameters
        missing == {i \in idx : ~Satisfiable(method_parameters[i], method_arguments)}
        first == CHOOSE i \in missing : \A j \in missing : i <= j
        declared == {method_parameters[i].name : i \in idx}
        given == IF IsNone(method_arguments) THEN {}
                 ELSE DOMAIN DictItems(method_arguments.v)
        byName(name) == CHOOSE i \in idx : method_parameters[i].name = name
    IN IF missing # {}
       THEN Raise("ValueError", <<Str(method_parameters[first].name)>>)
       ELSE Ok([name \in declared \cup given |->
                   IF name \in declared
                   THEN ParamValue(method_parameters[byName(name)], method_arguments)
                   ELSE FromArguments(DictItems(method_arguments.v)[name])])

BuildParams(method_parameters, method_arguments) ==
    LET idx == DOMAIN method_parameters
        missing == {i \in idx : ~Satisfiable(method_parameters[i], method_arguments)}
        first == CHOOSE i \in missing : \A j \in missing : i <= j
        byName(name) == CHOOSE i \in idx : method_parameters[i].name = name
    IN IF missing # {}
       THEN Raise("ValueError", <<Str(method_parameters[first].name)>>)
       ELSE Ok([name \in {method_parameters[i].name : i \in idx} |->
                   ParamValue(method_parameters[byName(name)], method_arguments)])

----------------------------------------------------------------------------
(* Calling a Python callable with keyword arguments.                       *)

Call(callable, kwargs, ret) ==
    [callable |-> callable, kwargs |-> kwargs, ret |-> ret, run |-> 0, at |-> 0]

(* The keyword arguments bind to the signature: every parameter without a  *)
(* default is given and no other name is.                                  *)
Binds(parameters, kwargs) ==
    /\ \A i \in DOMAIN parameters :
          parameters[i].default = Empty => parameters[i].name \in DOMAIN kwargs
    /\ \A name \in DOMAIN kwargs :
          \E i \in DOMAIN parameters : parameters[i].name = name

Done(v, log, made) == [exc |-> "", val |-> v, about |-> <<>>, log |-> log, made |-> made]
Fail(e, about) == [exc |-> e, val |-> NoneV, about |-> about, log |-> <<>>, made |-> 0]

(* Calling a function or method with the built keyword arguments.          *)
InvokeFunction(callable, kwargs) ==
    IF ~Binds(GetMethodSignature(callable).val, kwargs)
    THEN Fail("TypeError", <<callable>>)
    ELSE IF callable = Bound("Pipeline", "run", 0)
    THEN Fail("RecursionError", <<callable>>)
    ELSE LET ret == FuncReturn(callable)
         IN Done(ret, <<Call(callable, kwargs, ret)>>, 0)

(* Calling a class with the built keyword arguments.                       *)
Instantiate(class, kwargs) ==
    IF ~Binds(GetMethodSignature(class).val, kwargs)
    THEN Fail("TypeError", <<class>>)
    ELSE LET obj == Inst(class.v, nInst + 1)
         IN Done(obj, <<Call(class, kwargs, obj)>>, 1)

(* Calling a class, then fit() on the new object.                          *)
InstantiateAndFit(class, kwargs) ==
    LET made == Instantiate(class, kwargs)
        obj == made.val
    IN IF made.exc # "" THEN made
       ELSE IF ~HasAttr(obj, "fit")
       THEN [Fail("AttributeError", <<Str("fit")>>) EXCEPT !.made = 1, !.log = made.log]
       ELSE LET fit == GetAttr(obj, "fit")
            IN Done(obj, made.log \o <<Call(fit, EmptyMap, FuncReturn(fit))>>, 1)

----------------------------------------------------------------------------
(* Pipeline._run_step                                                      *)

IsFunctionOrMethod(x) == x.k \in {"func", "bound"}

(* hasattr(x, '__module__')                                                *)
HasModuleAttr(x) == x.k \in {"func", "bound", "type", "inst"}

(* step_name is a key of globals()                                         *)
RunGlobal(name, kwargs) ==
    LET found == Globals[name]
    IN IF IsFunctionOrMethod(found) THEN InvokeFunction(found, kwargs)
       ELSE IF IsType(found) THEN InstantiateAndFit(found, kwargs)
       ELSE Fail("TypeError", <<found>>)

(* step_name is a function, a method or a class                            *)
RunObject(step_name, kwargs) ==
    IF IsFunctionOrMethod(step_name) THEN InvokeFunction(step_name, kwargs)
    ELSE IF IsType(step_name) THEN Instantiate(step_name, kwargs)
    ELSE Fail("TypeError", <<step_name>>)

(* step_name is the name of a member of the host                           *)
RunHostMember(name, kwargs) ==
    LET found == GetAttr(HostObj, name)
    IN IF IsFunctionOrMethod(found) THEN InvokeFunction(found, kwargs)
       ELSE Fail("TypeError", <<found>>)

(* step_name is 'object.method...': the loop over the path. Every round    *)
(* splits step_name again, takes its first segment off the host and asks   *)
(* that object for the whole rest of the path as one attribute name.       *)
RunDotted(name, kwargs) ==
    LET parts == Split(name)
        obj_name == parts[1]
    IN IF ~HasDot(name) THEN Fail("ValueError", <<Str(name)>>)
       ELSE IF ~HasAttr(HostObj, obj_name)
       THEN Fail("AttributeError", <<Str(obj_name)>>)
       ELSE LET obj == GetAttr(HostObj, obj_name)
            IN IF Len(parts) # 2 \/ ~HasAttr(obj, parts[2])
               THEN Fail("AttributeError", <<Str(name)>>)
               ELSE LET call_name == GetAttr(obj, parts[2])
                    IN IF IsCallable(call_name)
                       THEN RunObject(call_name, kwargs)
                       ELSE Fail("TypeError", <<call_name>>)

RunStep(step_name, list_of_params) ==
    IF ~Hashable(step_name) THEN Fail("TypeError", <<step_name>>)
    ELSE IF IsStr(step_name) /\ step_name.v \in DOMAIN Globals
    THEN RunGlobal(step_name.v, list_of_params)
    ELSE IF ~IsStr(step_name) /\ HasModuleAttr(step_name)
    THEN RunObject(step_name, list_of_params)
    ELSE IF ~IsStr(step_name) THEN Fail("TypeError", <<step_name>>)
    ELSE IF HasAttr(HostObj, step_name.v)
    THEN RunHostMember(step_name.v, list_of_params)
    ELSE RunDotted(step_name.v, list_of_params)

----------------------------------------------------------------------------
(* The state after Pipeline(host): no stages, the host registered.         *)

NoProbe == [op |-> "none"]

HostAttrNames == {"param1", "show", "types", "obj"}

HostAttrValue(name) ==
    CASE name = "obj" -> Inst("SomeClass", 1)
      [] name = "param1" -> Str("Hello")
      [] OTHER -> Str("shadow")

HostStates == {[x \in D |-> HostAttrValue(x)] : D \in SUBSET HostAttrNames}

NoPbar == [state |-> "unset", total |-> 0, n |-> 0, created |-> 0, closed |-> 0]

Untouched ==
    /\ pipeline = <<>>
    /\ runState = "idle"
    /\ pos = 0
    /\ raised = Ok(NoneV)
    /\ calls = <<>>
    /\ nInst = 0
    /\ nIds = 0
    /\ runs = 0
    /\ pbar = NoPbar
    /\ probe = NoProbe

Constructed ==
    /\ Untouched
    /\ objects_ = [x \in {"host"} |-> HostObj]

----------------------------------------------------------------------------
(* Stage, and Pipeline.from_list                                           *)

NoParameters == [set |-> FALSE, items |-> <<>>]
Parameters(items) == [set |-> TRUE, items |-> items]

StageResolved(num, id, f) ==
    [num |-> num, id |-> id,
     attribute_name |-> f.attribute_name, method_name |-> f.method_name,
     method_call |-> GetCallableMethod(f.method_name, f.class_name).val,
     class_name |-> f.class_name,
     parameters |-> NoParameters, arguments |-> f.arguments]

Stage(num, id, f) ==
    [num |-> num, id |-> id,
     attribute_name |-> f.attribute_name, method_name |-> f.method_name,
     method_call |-> NoneV, class_name |-> f.class_name,
     parameters |-> NoParameters, arguments |-> f.arguments]

(* The steps of a list that are parsed before one of them raises.          *)
ParsedPrefix(steps) ==
    LET bad == {i \in DOMAIN steps : ParseStep(steps[i]).exc # ""}
    IN IF bad = {} THEN Len(steps)
       ELSE (CHOOSE i \in bad : \A j \in bad : i <= j) - 1

FromListReplacing(steps) ==
    LET n == ParsedPrefix(steps)
    IN /\ runState # "running"
       /\ Len(pipeline) + Len(steps) <= MaxStages
       /\ pipeline' = [i \in 1..n |-> Stage(i - 1, nIds + i, ParseStep(steps[i]).val)]
       /\ nIds' = nIds + IF n < Len(steps) THEN n + 1 ELSE n
       /\ raised' = IF n < Len(steps)
                    THEN LET r == ParseStep(steps[n + 1]) IN Raise(r.exc, r.about)
                    ELSE Ok(NoneV)
       /\ runState' = "idle"
       /\ UNCHANGED <<hostAttrs, objects_, pos, calls, nInst, runs, pbar, probe>>

(* Stage ids are successive outputs of the random generator.               *)
FromList(steps) ==
    LET n == ParsedPrefix(steps)
    IN /\ runState # "running"
       /\ Len(pipeline) + Len(steps) <= MaxStages
       /\ pipeline' = pipeline \o
             [i \in 1..n |-> Stage(i - 1, nIds + i, ParseStep(steps[i]).val)]
       /\ nIds' = nIds + IF n < Len(steps) THEN n + 1 ELSE n
       /\ raised' = IF n < Len(steps)
                    THEN LET r == ParseStep(steps[n + 1]) IN Raise(r.exc, r.about)
                    ELSE Ok(NoneV)
       /\ runState' = "idle"
       /\ UNCHANGED <<hostAttrs, objects_, pos, calls, nInst, runs, pbar, probe>>

----------------------------------------------------------------------------
(* Pipeline.from_config and _process_config. The configuration is what     *)
(* yaml.safe_load returns: a mapping from step ids to mappings, in the     *)
(* order of the file. An item of a step is [key |-> ..., value |-> ...].   *)

Item(key, value) == [key |-> key, value |-> value]

Step(step_id, items) == [id |-> step_id, items |-> items]

(* The loop over the items of one step (lines 626-641).                    *)
RECURSIVE ProcessItems(_, _, _)
ProcessItems(stage, items, module) ==
    IF items = <<>> THEN Ok(stage)
    ELSE LET k == items[1].key
             v == items[1].value
             rest == Tail(items)
         IN IF k = "attribute"
            THEN ProcessItems([stage EXCEPT !.attribute_name = v], rest, module)
            ELSE IF k = "method"
            THEN ProcessItems([stage EXCEPT !.method_name = v], rest, module)
            ELSE IF k = "class"
            THEN IF v.v \in DOMAIN ModuleAttrs(module)
                 THEN ProcessItems([stage EXCEPT !.class_name = ModuleAttrs(module)[v.v]],
                                   rest, module)
                 ELSE Raise("AttributeError", <<v, Str(module)>>)
            ELSE IF k = "arguments"
            THEN ProcessItems([stage EXCEPT !.arguments = v], rest, module)
            ELSE Raise("ValueError", <<Str(k)>>)

ProcessStep(nr, step, module) ==
    ProcessItems(Stage(nr, step.id, Fields(NoneV, NoneV, NoneV, NoneV)),
                 step.items, module)

(* The first step of the configuration that raises, 0 if none does.        *)
FirstBadStep(config, module) ==
    LET bad == {i \in DOMAIN config : ProcessStep(i - 1, config[i], module).exc # ""}
    IN IF bad = {} THEN 0 ELSE CHOOSE i \in bad : \A j \in bad : i <= j

ProcessConfig(config, caller_module) ==
    LET b == FirstBadStep(config, caller_module)
    IN IF b = 0
       THEN Ok([i \in DOMAIN config |-> ProcessStep(i - 1, config[i], caller_module).val])
       ELSE LET r == ProcessStep(b - 1, config[b], caller_module)
            IN Raise(r.exc, r.about)

CallerModule == "__main__"

FromConfigPartial(config) ==
    LET r == ProcessConfig(config, CallerModule)
        b == FirstBadStep(config, CallerModule)
    IN /\ runState # "running"
       /\ pipeline' = IF r.exc = "" THEN r.val
                      ELSE [i \in 1..(b - 1) |->
                               ProcessStep(i - 1, config[i], CallerModule).val]
       /\ raised' = IF r.exc = "" THEN Ok(NoneV) ELSE Raise(r.exc, r.about)
       /\ runState' = "idle"
       /\ UNCHANGED <<hostAttrs, objects_, pos, calls, nInst, nIds, runs, pbar, probe>>

(* self.pipeline = self._process_config(config, caller_module)             *)
FromConfig(config) ==
    LET r == ProcessConfig(config, CallerModule)
    IN /\ runState # "running"
       /\ pipeline' = IF r.exc = "" THEN r.val ELSE pipeline
       /\ raised' = IF r.exc = "" THEN Ok(NoneV) ELSE Raise(r.exc, r.about)
       /\ runState' = "idle"
       /\ UNCHANGED <<hostAttrs, objects_, pos, calls, nInst, nIds, runs, pbar, probe>>

----------------------------------------------------------------------------
(* Pipeline.run: the check of the stage list and _pbar_create, one round   *)
(* of the loop over the stages, and _pbar_close.                           *)

PbarCreate ==
    IF Len(pipeline) = 0
    THEN [pbar EXCEPT !.state = "none"]
    ELSE [pbar EXCEPT !.state = "open", !.total = Len(pipeline), !.n = 0,
                      !.created = @ + 1]

PbarUpdate(step) == [pbar EXCEPT !.n = @ + step]

PbarClose == [pbar EXCEPT !.state = "none", !.closed = @ + 1]

RunBeginPbarFirst ==
    /\ runState # "running"
    /\ runs < MaxRuns
    /\ runs' = runs + 1
    /\ pos' = 0
    /\ pbar' = PbarCreate
    /\ IF pipeline = <<>>
       THEN /\ raised' = Raise("AssertionError", <<>>)
            /\ runState' = "failed"
       ELSE /\ raised' = Ok(NoneV)
            /\ runState' = "running"
    /\ UNCHANGED <<pipeline, hostAttrs, objects_, calls, nInst, nIds, probe>>

RunBegin ==
    /\ runState # "running"
    /\ runs < MaxRuns
    /\ runs' = runs + 1
    /\ pos' = 0
    /\ IF pipeline = <<>>
       THEN /\ raised' = Raise("AssertionError", <<>>)
            /\ runState' = "failed"
            /\ pbar' = pbar
       ELSE /\ raised' = Ok(NoneV)
            /\ runState' = "running"
            /\ pbar' = PbarCreate
    /\ UNCHANGED <<pipeline, hostAttrs, objects_, calls, nInst, nIds, probe>>

(* The invocations of the round, marked with the run and the position.    *)
Tagged(log) == [i \in DOMAIN log |-> [log[i] EXCEPT !.run = runs, !.at = pos + 1]]

Resolve(stage) == GetCallableMethod(stage.method_name, stage.class_name)

(* setattr(self.host, attribute_name, return_value) and the registration.  *)
PublishAlways(attribute_name, return_value) ==
    /\ hostAttrs' = SetItem(hostAttrs, attribute_name.v, return_value)
    /\ objects_' = SetItem(objects_, attribute_name.v, return_value)

PublishOnly(attribute_name, return_value) ==
    /\ hostAttrs' = SetItem(hostAttrs, attribute_name.v, return_value)
    /\ objects_' = IF ~IsType(return_value)
                   THEN [x \in {"host", attribute_name.v} |->
                            IF x = attribute_name.v THEN return_value ELSE HostObj]
                   ELSE objects_

Publish(attribute_name, return_value) ==
    /\ hostAttrs' = SetItem(hostAttrs, attribute_name.v, return_value)
    /\ objects_' = IF ~IsType(return_value)
                   THEN SetItem(objects_, attribute_name.v, return_value)
                   ELSE objects_

Abort(exc) ==
    /\ runState' = "failed"
    /\ raised' = Raise(exc.exc, exc.about)
    /\ UNCHANGED <<pos, pbar>>

RunStage ==
    /\ runState = "running"
    /\ pos < Len(pipeline)
    /\ LET stage == pipeline[pos + 1]
           found == Resolve(stage)
           sig == GetMethodSignature(found.val)
           parameters == StripSelf(sig.val)
           built == BuildParams(parameters, stage.arguments)
           ran == RunStep(found.val, built.val)
       IN IF found.exc # ""
          THEN /\ Abort(found)
               /\ UNCHANGED <<pipeline, hostAttrs, objects_, calls, nInst>>
          ELSE IF sig.exc # ""
          THEN /\ Abort(sig)
               /\ pipeline' = [pipeline EXCEPT ![pos + 1].method_call = found.val]
               /\ UNCHANGED <<hostAttrs, objects_, calls, nInst>>
          ELSE /\ pipeline' = [pipeline EXCEPT
                                  ![pos + 1].method_call = found.val,
                                  ![pos + 1].parameters = Parameters(parameters)]
               /\ IF built.exc # ""
                  THEN /\ Abort(built)
                       /\ UNCHANGED <<hostAttrs, objects_, calls, nInst>>
                  ELSE /\ calls' = calls \o Tagged(ran.log)
                       /\ nInst' = nInst + ran.made
                       /\ IF ran.exc # ""
                          THEN /\ Abort(ran)
                               /\ UNCHANGED <<hostAttrs, objects_>>
                          ELSE IF IsNone(stage.attribute_name)
                          THEN /\ UNCHANGED <<hostAttrs, objects_>>
                               /\ pos' = pos + 1
                               /\ pbar' = PbarUpdate(1)
                               /\ UNCHANGED <<runState, raised>>
                          ELSE IF ~IsStr(stage.attribute_name)
                          THEN /\ Abort(Raise("TypeError", <<stage.attribute_name>>))
                               /\ UNCHANGED <<hostAttrs, objects_>>
                          ELSE /\ Publish(stage.attribute_name, ran.val)
                               /\ pos' = pos + 1
                               /\ pbar' = PbarUpdate(1)
                               /\ UNCHANGED <<runState, raised>>
    /\ UNCHANGED <<nIds, runs, probe>>

RunEnd ==
    /\ runState = "running"
    /\ pos = Len(pipeline)
    /\ runState' = "done"
    /\ pbar' = PbarClose
    /\ UNCHANGED <<pipeline, hostAttrs, objects_, pos, raised, calls, nInst, nIds,
                   runs, probe>>

----------------------------------------------------------------------------
(* The pipelines of the model: a host with or without param1, and lists of *)
(* steps over the shapes the examples and tests use.                       *)

StepSpecs ==
    { Str("method_name"),
      Tuple(<<TypeRef("SomeClass")>>),
      Tuple(<<Str("obj"), TypeRef("SomeClass")>>),
      Tuple(<<Str("result"), Str("obj.compute"), Dict("d_empty")>>),
      Tuple(<<Str("method_name"), Dict("d_obj")>>),
      Tuple(<<Str("obj"), Str("get_class")>>),
      Tuple(<<Str("result"), Str("method_name"), Dict("d_list")>>) }

StepLists == UNION {[1..n -> StepSpecs] : n \in 1..MaxListLen}

Init ==
    /\ Constructed
    /\ hostAttrs \in {h \in HostStates : DOMAIN h \subseteq {"param1"}}

(* The stage list is declared by one call of from_list.                    *)
Load == pipeline = <<>> /\ \E steps \in StepLists : FromList(steps)

Next == Load \/ RunBegin \/ RunStage \/ RunEnd

Spec == Init /\ [][Next]_vars

----------------------------------------------------------------------------
(* Direct calls of _parse_step on every shape of step specification.       *)

Names == {Str("method_name"), Str("attr"), Str("count"), Str("obj.compute")}

Tokens ==
    Names \cup {TypeRef("SomeClass"), TypeRef("LocalClass"), Dict("d_lit"),
                IntV(5), NoneV}

PadTokens == {Str("attr"), TypeRef("SomeClass"), Dict("d_lit")}

TuplesOf(S, n) == {Tuple(el) : el \in [1..n -> S]}

StepInputs ==
    Tokens
    \cup UNION {TuplesOf(Tokens, n) : n \in 0..ParsedLen}
    \cup UNION {TuplesOf(PadTokens, n) : n \in (ParsedLen + 1)..MaxTupleLen}

InitParse ==
    /\ Constructed
    /\ hostAttrs \in {h \in HostStates : DOMAIN h \subseteq {"obj", "show"}}

ParseCallKeepingName ==
    /\ probe = NoProbe
    /\ \E s \in StepInputs :
          /\ probe' = [op |-> "_parse_step", arg |-> s, res |-> ParseStep(s)]
          /\ hostAttrs' = IF IsTuple(s) /\ Len(s.el) > 1 /\ IsStr(s.el[1])
                          THEN SetItem(hostAttrs, s.el[1].v, NoneV)
                          ELSE hostAttrs
    /\ UNCHANGED <<pipeline, objects_, runState, pos, raised, calls, nInst,
                   nIds, runs, pbar>>

ParseCall ==
    /\ probe = NoProbe
    /\ \E s \in StepInputs :
          probe' = [op |-> "_parse_step", arg |-> s, res |-> ParseStep(s)]
    /\ UNCHANGED <<pipeline, hostAttrs, objects_, runState, pos, raised, calls, nInst,
                   nIds, runs, pbar>>

SpecParse == InitParse /\ [][ParseCall]_vars

(* The same step specification parsed a second time.                       *)
ParseAgain ==
    /\ probe # NoProbe
    /\ probe.op = "_parse_step"
    /\ "again" \notin DOMAIN probe
    /\ probe' = [op |-> "_parse_step", arg |-> probe.arg, res |-> probe.res,
                 again |-> ParseStep(probe.arg)]
    /\ UNCHANGED <<pipeline, hostAttrs, objects_, runState, pos, raised, calls, nInst,
                   nIds, runs, pbar>>

SpecParseTwice == InitParse /\ [][ParseCall \/ ParseAgain]_vars

----------------------------------------------------------------------------
(* Direct calls of _get_callable_method.                                   *)

ResolveNames ==
    {Str(x) : x \in {"method_name", "count", "attr", "show", "run", "host",
                     "types", "Stage", "obj", "obj.compute", "zz.compute",
                     "obj.inner.compute"}}
    \cup {NoneV}

ResolveClasses ==
    {NoneV, TypeRef("SomeClass"), TypeRef("LocalClass"), TypeRef("Stage"),
     Func("tests", "test_get_callable_method"), IntV(5)}

InitResolve ==
    /\ Constructed
    /\ hostAttrs \in HostStates

ResolveCall ==
    /\ probe = NoProbe
    /\ \E name \in ResolveNames, cls \in ResolveClasses :
          probe' = [op |-> "_get_callable_method", name |-> name, cls |-> cls,
                    res |-> GetCallableMethod(name, cls)]
    /\ UNCHANGED <<pipeline, hostAttrs, objects_, runState, pos, raised, calls, nInst,
                   nIds, runs, pbar>>

SpecResolve == InitResolve /\ [][ResolveCall]_vars

----------------------------------------------------------------------------
(* Direct calls of _build_params: the parameter maps run() hands over (the *)
(* signatures of the user's functions, the receiver stripped), against     *)
(* every host and a registry with or without a published object.           *)

Signatures ==
    {StripSelf(FuncParams(f)) :
        f \in {Func("Host", "method_name"), Func("Host", "needs_x"),
               Func("Host", "use_types"), Func("SomeClass", "__init__"),
               Func("SomeClass", "compute")}}

ArgumentValues ==
    {NoneV} \cup {Dict(d) : d \in {"d_empty", "d_lit", "d_obj", "d_list", "d_extra"}}

Registries ==
    { [x \in {"host"} |-> HostObj],
      [x \in {"host", "obj"} |-> IF x = "host" THEN HostObj ELSE Inst("SomeClass", 1)] }

InitBuild ==
    /\ Untouched
    /\ objects_ \in Registries
    /\ hostAttrs \in HostStates

BuildCall ==
    /\ probe = NoProbe
    /\ \E parameters \in Signatures, arguments \in ArgumentValues :
          probe' = [op |-> "_build_params", parameters |-> parameters,
                    arguments |-> arguments,
                    res |-> BuildParams(parameters, arguments)]
    /\ UNCHANGED <<pipeline, hostAttrs, objects_, runState, pos, raised, calls, nInst,
                   nIds, runs, pbar>>

SpecBuild == InitBuild /\ [][BuildCall]_vars

----------------------------------------------------------------------------
(* Declaring the stage list: calls of from_list and from_config in any     *)
(* order, with well-formed and malformed steps.                            *)

LoadSteps ==
    { Str("method_name"),
      Tuple(<<>>),
      IntV(5) }

LoadLists == UNION {[1..n -> LoadSteps] : n \in 1..MaxLoadLen}

ConfigItems ==
    { <<Item("method", Str("method_name"))>>,
      <<Item("attribute", Str("obj")), Item("class", Str("SomeClass"))>>,
      <<Item("attribute", Str("obj")), Item("class", Str("Missing"))>>,
      <<Item("method", Str("method_name")), Item("bogus", IntV(5))>> }

(* The keys of the configuration file, which become the ids of its stages: *)
(* 101, 102, ... (no id that from_list draws).                             *)
StepId(i) == 100 + i

Configs ==
    UNION {{[i \in 1..n |-> Step(StepId(i), f[i])] : f \in [1..n -> ConfigItems]} :
              n \in 1..MaxConfigLen}

InitLoad == Init

LoadList ==
    \E steps \in LoadLists : nIds + Len(steps) <= MaxIds /\ FromList(steps)

LoadConfig == \E config \in Configs : FromConfig(config)

NextLoad == LoadList \/ LoadConfig

SpecLoad == InitLoad /\ [][NextLoad]_vars

----------------------------------------------------------------------------
(* The operations of a Pipeline in any order: declaring stages, running    *)
(* them, showing them.                                                     *)

(* Pipeline.show prints the stages and changes nothing.                    *)
Show ==
    /\ runState # "running"
    /\ UNCHANGED vars

(* One step declared at a time, by either loader.                          *)
DeclareStep ==
    \E steps \in {l \in LoadLists : Len(l) = 1} :
        nIds + Len(steps) <= MaxIds /\ FromList(steps)

OneStepConfigs == {c \in Configs : Len(c) = 1}

DeclareConfig == \E config \in OneStepConfigs : FromConfig(config)

NextLife == DeclareStep \/ DeclareConfig \/ RunBegin \/ RunStage \/ RunEnd \/ Show

SpecLife == InitLoad /\ [][NextLife]_vars

----------------------------------------------------------------------------
(* Runs of stage lists whose method names are paths, names no scope knows, *)
(* members of the pipeline object, the registry's own key, and a method    *)
(* of a class given with the class.                                        *)

PathStepSpecs ==
    { Tuple(<<Str("obj"), TypeRef("SomeClass")>>),
      Str("obj.inner.compute"),
      Str("nope"),
      Str("zz.compute"),
      Tuple(<<Str("host"), TypeRef("SomeClass")>>),
      Str("run"),
      Str("show"),
      Tuple(<<Str("method_name"), TypeRef("SomeClass")>>) }

PathStepLists == UNION {[1..n -> PathStepSpecs] : n \in 1..MaxListLen}

LoadPaths == pipeline = <<>> /\ \E steps \in PathStepLists : FromList(steps)

NextPaths == LoadPaths \/ RunBegin \/ RunStage \/ RunEnd

SpecPaths == Init /\ [][NextPaths]_vars

----------------------------------------------------------------------------
(* Properties of _parse_step.                                              *)

Parsed == probe.op = "_parse_step"

(* C1: without a type reference in the probed position the parser returns  *)
(* the fields of the table: name, type, (name, mapping), (name, name),     *)
(* (name, name, mapping), (name, name, type, mapping); and a value that is *)
(* not a tuple parses as the 1-tuple holding it.                           *)
C1_ParseTable ==
    Parsed =>
        LET s == probe.arg
            r == probe.res
        IN /\ IsStr(s) => r = Ok(Fields(NoneV, s, NoneV, NoneV))
           /\ IsType(s) => r = Ok(Fields(NoneV, NoneV, s, NoneV))
           /\ ~IsTuple(s) => r = ParseStep(Tuple(<<s>>))
           /\ IsTuple(s) =>
                LET e == s.el
                IN /\ (Len(e) = 1 /\ IsStr(e[1]))
                        => r = Ok(Fields(NoneV, e[1], NoneV, NoneV))
                   /\ (Len(e) = 1 /\ IsType(e[1]))
                        => r = Ok(Fields(NoneV, NoneV, e[1], NoneV))
                   /\ (Len(e) = 2 /\ IsStr(e[1]) /\ IsDict(e[2]))
                        => r = Ok(Fields(NoneV, e[1], NoneV, e[2]))
                   /\ (Len(e) = 2 /\ IsStr(e[1]) /\ IsStr(e[2]))
                        => r = Ok(Fields(e[1], e[2], NoneV, NoneV))
                   /\ (Len(e) = 3 /\ IsStr(e[1]) /\ IsStr(e[2]) /\ IsDict(e[3]))
                        => r = Ok(Fields(e[1], e[2], NoneV, e[3]))
                   /\ (Len(e) = 4 /\ IsStr(e[1]) /\ IsStr(e[2]) /\ IsType(e[3])
                         /\ IsDict(e[4]))
                        => r = Ok(Fields(e[1], e[2], e[3], e[4]))

C1_Witness ==
    /\ Parsed
    /\ probe.arg = Tuple(<<Str("attr"), Str("method_name")>>)
    /\ probe.res = Ok(Fields(Str("attr"), Str("method_name"), NoneV, NoneV))

(* C2: for (e0, C) and (e0, C, mapping) with e0 a name and C a class, e0   *)
(* becomes the method name exactly when it names a callable member of C,   *)
(* and the attribute name otherwise; class_name is C and arguments is the  *)
(* mapping, or unset.                                                      *)
CallableMember(name, class_name) ==
    /\ name.v \in DOMAIN ClassMembers(class_name.v)
    /\ IsCallable(ClassMembers(class_name.v)[name.v])

C2_ProbeDecides ==
    (Parsed /\ IsTuple(probe.arg)) =>
        LET e == probe.arg.el
            args == IF Len(e) = 3 THEN e[3] ELSE NoneV
        IN (/\ Len(e) \in {2, 3}
            /\ IsStr(e[1])
            /\ IsType(e[2])
            /\ Len(e) = 3 => IsDict(e[3]))
           => probe.res = IF CallableMember(e[1], e[2])
                          THEN Ok(Fields(NoneV, e[1], e[2], args))
                          ELSE Ok(Fields(e[1], NoneV, e[2], args))

(* C12: a tuple of any length other than 1, 2, 3 or 4 is rejected with a   *)
(* ValueError.                                                             *)
C12_OtherLengthsRejected ==
    (Parsed /\ IsTuple(probe.arg) /\ Len(probe.arg.el) \notin 1..ParsedLen)
    => probe.res.exc = "ValueError"

(* C13: a 4-tuple is accepted exactly when it is (name, name, class,       *)
(* mapping); every other 4-tuple is rejected with a ValueError.            *)
C13_FourTupleExact ==
    (Parsed /\ IsTuple(probe.arg) /\ Len(probe.arg.el) = ParsedLen) =>
        LET e == probe.arg.el
        IN IF IsStr(e[1]) /\ IsStr(e[2]) /\ IsType(e[3]) /\ IsDict(e[4])
           THEN probe.res = Ok(Fields(e[1], e[2], e[3], e[4]))
           ELSE probe.res.exc = "ValueError"

(* C14: a 3-tuple is accepted exactly when it is (name, name, mapping) or  *)
(* (name, class, mapping); every other 3-tuple is rejected with a          *)
(* ValueError about the specification.                                     *)
C14_ThreeTupleExact ==
    (Parsed /\ IsTuple(probe.arg) /\ Len(probe.arg.el) = 3) =>
        LET e == probe.arg.el
        IN IF IsStr(e[1]) /\ (IsStr(e[2]) \/ IsType(e[2])) /\ IsDict(e[3])
           THEN probe.res.exc = ""
           ELSE probe.res = BadStep(probe.arg)

(* C20: a call of _parse_step changes neither the stage list nor the host  *)
(* nor the registry, and parsing the same specification again gives the    *)
(* same fields, or the same error.                                         *)
C20_Round ==
    /\ probe' # probe =>
          pipeline' = pipeline /\ hostAttrs' = hostAttrs /\ objects_' = objects_
    /\ "again" \in DOMAIN probe' => probe'.again = probe'.res

----------------------------------------------------------------------------
(* Properties of _get_callable_method.                                     *)

Resolved == probe.op = "_get_callable_method"

(* C9: with a class, the resolver returns the member of the class or None  *)
(* and never looks at the host, the pipeline object or the globals; with   *)
(* no name it returns the class itself.                                    *)
C9_ClassScopedOnly ==
    (Resolved /\ IsType(probe.cls)) =>
        /\ IsStr(probe.name) =>
              probe.res = Ok(Get(ClassMembers(probe.cls.v), probe.name.v))
        /\ IsNone(probe.name) => probe.res = Ok(probe.cls)

(* C10: without a class the resolver returns the host's member, else the   *)
(* pipeline object's member, else the global of that name, else None for a *)
(* name that has no path separator.                                        *)
C10_ScopePrecedence ==
    (Resolved /\ IsNone(probe.cls) /\ IsStr(probe.name)) =>
        LET n == probe.name.v
        IN IF HasAttr(HostObj, n)
           THEN probe.res = Ok(GetAttr(HostObj, n))
           ELSE IF n \in DOMAIN PipelineMembers
           THEN probe.res = Ok(PipelineMembers[n])
           ELSE IF n \in DOMAIN Globals
           THEN probe.res = Ok(Globals[n])
           ELSE ~HasDot(n) => probe.res = Ok(NoneV)

(* The host, the pipeline object and the globals all know the name asked   *)
(* for, or the host and the pipeline object do: the host's value is given. *)
C10_Witness ==
    /\ Resolved
    /\ IsNone(probe.cls)
    /\ probe.name = Str("show")
    /\ "show" \in DOMAIN hostAttrs
    /\ probe.res = Ok(Str("shadow"))

(* C11: a class reference that is neither None nor a class makes the       *)
(* resolver fail with AttributeError ("must be a class") for every name    *)
(* that is a string or None, whatever the host, the pipeline object or the *)
(* globals define.                                                         *)
C11_NotAClass ==
    (/\ Resolved
     /\ ~IsNone(probe.cls) /\ ~IsType(probe.cls)
     /\ IsStr(probe.name) \/ IsNone(probe.name))
    => probe.res = Raise("AttributeError", <<probe.cls>>)

(* The name asked for is a member of the host and of the pipeline object,  *)
(* the class reference is a function.                                      *)
C11_Witness ==
    /\ Resolved
    /\ probe.cls = Func("tests", "test_get_callable_method")
    /\ probe.name = Str("show")
    /\ "show" \in DOMAIN hostAttrs
    /\ probe.res.exc = "AttributeError"

----------------------------------------------------------------------------
(* Properties of _build_params.                                            *)

Built == probe.op = "_build_params"

Explicit(name) ==
    /\ ~IsNone(probe.arguments)
    /\ name \in DOMAIN DictItems(probe.arguments.v)

ExplicitValue(name) ==
    LET given == DictItems(probe.arguments.v)[name]
    IN IF given.k \in {"dict", "list"} THEN given
       ELSE IF given.k = "str" /\ given.v \in DOMAIN objects_ THEN objects_[given.v]
       ELSE given

OnHost(name) ==
    name \in DOMAIN hostAttrs \/ name \in DOMAIN ClassMembers("Host")

(* C3: every declared parameter takes its value from the first source that *)
(* has it: the explicit arguments (a registered name replaced by the       *)
(* registered object), the host's attribute, the globals, the default.     *)
C3_ArgumentPrecedence ==
    (Built /\ probe.res.exc = "") =>
        \A i \in DOMAIN probe.parameters :
            LET q == probe.parameters[i]
                got == probe.res.val[q.name]
            IN IF Explicit(q.name) THEN got = ExplicitValue(q.name)
               ELSE IF OnHost(q.name) THEN got = GetAttr(HostObj, q.name)
               ELSE IF q.name \in DOMAIN Globals THEN got = Globals[q.name]
               ELSE got = q.default

(* param1 is given explicitly as the registered name 'obj' and is also an  *)
(* attribute of the host: the registered object is passed.                 *)
C3_Witness ==
    /\ Built
    /\ probe.arguments = Dict("d_obj")
    /\ "param1" \in DOMAIN hostAttrs
    /\ "obj" \in DOMAIN objects_
    /\ probe.parameters = <<Param("param1", Empty)>>
    /\ probe.res.exc = ""
    /\ probe.res.val["param1"] = Inst("SomeClass", 1)
    /\ probe.res.val["param1"] # hostAttrs["param1"]

(* C29: on success the mapping _build_params returns has exactly the       *)
(* declared parameters as its keys; a key of the explicit arguments that   *)
(* is not a declared parameter is dropped, and is not an error.            *)
C29_ExactlyDeclared ==
    Built =>
        LET declared == {probe.parameters[i].name : i \in DOMAIN probe.parameters}
            given == IF IsNone(probe.arguments) THEN {}
                     ELSE DOMAIN DictItems(probe.arguments.v)
        IN /\ probe.res.exc = "" => DOMAIN probe.res.val = declared
           /\ probe.res.exc # "" =>
                 /\ probe.res.exc = "ValueError"
                 /\ probe.res.about[1].v \in declared \ given

(* The explicit arguments carry 'other', which the callable does not       *)
(* declare: the call succeeds and the mapping has param1 only.             *)
C29_Witness ==
    /\ Built
    /\ probe.arguments = Dict("d_extra")
    /\ probe.parameters = <<Param("param1", Empty)>>
    /\ probe.res.exc = ""
    /\ DOMAIN probe.res.val = {"param1"}
    /\ probe.res.val["param1"] = Str("value1")

----------------------------------------------------------------------------
(* Properties of run().                                                    *)

Current == pipeline[pos + 1]

(* A round of the loop has run to its end.                                 *)
Completed == runState = "running" /\ pos' = pos + 1

NewCalls == SubSeq(calls', Len(calls) + 1, Len(calls'))

ClassStep(stage) == IsType(stage.class_name) /\ IsNone(stage.method_name)

(* The last stage before position i of the current run that published      *)
(* under the name, or 0.                                                   *)
LastPublisher(name, i) ==
    LET S == {j \in 1..(i - 1) : pipeline[j].attribute_name = Str(name)}
    IN IF S = {} THEN 0 ELSE CHOOSE j \in S : \A l \in S : l <= j

(* C4: a class-step published under n registers the new instance under n  *)
(* and sets it on the host; an explicit argument whose value is a          *)
(* registered name is replaced by the registered object, which is that     *)
(* instance (the host's attribute n) when a class-step was the last to     *)
(* publish n; any other explicit value is passed as it is.                 *)
C4_Registered ==
    (Completed /\ ClassStep(Current) /\ IsStr(Current.attribute_name)) =>
        LET n == Current.attribute_name.v
            made == calls'[Len(calls')].ret
        IN /\ made = Inst(Current.class_name.v, nInst + 1)
           /\ n \in DOMAIN objects_' /\ objects_'[n] = made
           /\ hostAttrs'[n] = made

C4_Substituted ==
    \A i \in DOMAIN NewCalls :
        LET c == NewCalls[i]
            given == IF IsNone(Current.arguments) THEN EmptyMap
                     ELSE DictItems(Current.arguments.v)
        IN \A q \in DOMAIN c.kwargs \cap DOMAIN given :
              LET v == given[q]
                  by == IF IsStr(v) THEN LastPublisher(v.v, pos + 1) ELSE 0
              IN IF v.k \in {"dict", "list"} THEN c.kwargs[q] = v
                 ELSE IF IsStr(v) /\ v.v \in DOMAIN objects_
                 THEN /\ c.kwargs[q] = objects_[v.v]
                      /\ (by > 0 /\ ClassStep(pipeline[by])) =>
                            /\ c.kwargs[q] = hostAttrs[v.v]
                            /\ c.kwargs[q].k = "inst"
                            /\ \E j \in DOMAIN calls :
                                  /\ calls[j].run = runs /\ calls[j].at = by
                                  /\ calls[j].ret = c.kwargs[q]
                 ELSE c.kwargs[q] = v

C5_Round ==
    Completed =>
        LET v == calls'[Len(calls) + 1].ret
            a == Current.attribute_name
        IN IF IsNone(a)
           THEN hostAttrs' = hostAttrs /\ objects_' = objects_ /\ runState' = "running"
           ELSE /\ a.v \in DOMAIN hostAttrs' /\ hostAttrs'[a.v] = v
                /\ (a.v \in DOMAIN objects_' /\ objects_'[a.v] = v) <=> ~IsType(v)

C5_Publication == [][C5_Round]_vars

C5_Witness ==
    /\ runState = "running" /\ pos = 1
    /\ pipeline[1].attribute_name = Str("obj")
    /\ hostAttrs["obj"] = TypeRef("SomeClass")
    /\ "obj" \notin DOMAIN objects_

(* C6: a stage that needs a parameter x found in no source makes run()     *)
(* fail with a ValueError about x: its callable is not invoked, no later   *)
(* stage is touched, and what earlier stages wrote stays.                  *)
Unsatisfied(q, arguments) ==
    /\ IsNone(arguments) \/ q.name \notin DOMAIN DictItems(arguments.v)
    /\ q.name \notin DOMAIN hostAttrs
    /\ q.name \notin DOMAIN ClassMembers("Host")
    /\ q.name \notin DOMAIN Globals
    /\ q.default = Empty

MissingOf(stage) ==
    LET found == Resolve(stage)
        sig == GetMethodSignature(found.val)
        items == IF found.exc = "" /\ sig.exc = "" THEN StripSelf(sig.val) ELSE <<>>
    IN SelectSeq(items, LAMBDA q : Unsatisfied(q, stage.arguments))

C6_Round ==
    /\ (runState = "running" /\ pos < Len(pipeline) /\ MissingOf(Current) # <<>>) =>
          /\ runState' = "failed"
          /\ raised' = Raise("ValueError", <<Str(MissingOf(Current)[1].name)>>)
          /\ calls' = calls
          /\ pos' = pos
          /\ hostAttrs' = hostAttrs /\ objects_' = objects_
          /\ \A i \in (pos + 2)..Len(pipeline) : pipeline'[i] = pipeline[i]
    /\ (runState = "failed" /\ runs' = runs) =>
          calls' = calls /\ hostAttrs' = hostAttrs /\ objects_' = objects_

C6_FailureScenario == [][C6_Round]_vars

C6_Witness ==
    /\ runState = "failed"
    /\ raised = Raise("ValueError", <<Str("param1")>>)
    /\ Len(pipeline) = 3 /\ pos = 1
    /\ "obj" \in DOMAIN hostAttrs /\ "obj" \in DOMAIN objects_
    /\ \A j \in DOMAIN calls : calls[j].at = 1

(* C7: a stage with a class and no method name instantiates the class and  *)
(* calls fit() on the new instance exactly once.                           *)
C7_ClassStepCallsFit ==
    \A i \in DOMAIN calls :
        LET stage == pipeline[calls[i].at]
        IN (ClassStep(stage) /\ IsType(calls[i].callable)) =>
              Cardinality({j \in DOMAIN calls :
                              /\ calls[j].run = calls[i].run
                              /\ calls[j].at = calls[i].at
                              /\ calls[j].callable =
                                    Bound(stage.class_name.v, "fit", calls[i].ret.n)}) = 1

(* C8: [("obj", SomeClass), ("result", "obj.compute", {})] on a host that  *)
(* has no obj runs to its end: the second stage is resolved when it is     *)
(* reached, to compute of the object published as host.obj, and            *)
(* host.result is what that call returned.                                 *)
Scenario3 ==
    /\ Len(pipeline) = 2
    /\ pipeline[1].attribute_name = Str("obj")
    /\ ClassStep(pipeline[1]) /\ pipeline[1].class_name = TypeRef("SomeClass")
    /\ pipeline[2].attribute_name = Str("result")
    /\ pipeline[2].method_name = Str("obj.compute")
    /\ IsNone(pipeline[2].class_name)
    /\ pipeline[2].arguments = Dict("d_empty")

C8_LazyDotted ==
    Scenario3 =>
        /\ runState # "failed"
        /\ (runs <= 1 /\ pos < 2 /\ runState # "done")
              => pipeline[2].method_call = NoneV
        /\ pos = 2 =>
              LET last == calls[Len(calls)]
              IN /\ hostAttrs["obj"].k = "inst"
                 /\ pipeline[2].method_call =
                       Bound("SomeClass", "compute", hostAttrs["obj"].n)
                 /\ last.callable = pipeline[2].method_call
                 /\ last.at = 2 /\ last.run = runs
                 /\ hostAttrs["result"] = last.ret

C8_Witness ==
    /\ Scenario3
    /\ runState = "done"
    /\ hostAttrs["result"] = Str("computed")
    /\ pipeline[2].method_call = Bound("SomeClass", "compute", 1)

(* The stage of the round publishes a result that is not a class.          *)
Registers ==
    /\ Completed
    /\ IsStr(Current.attribute_name)
    /\ ~IsType(calls'[Len(calls) + 1].ret)

(* C16: during a run no registry entry is removed, a registered name keeps *)
(* its value, and the registry grows by one for each completed stage that  *)
(* publishes a result that is not a class, by zero for every other stage.  *)
C16_AppendOnlyRound ==
    runState = "running" =>
        /\ \A n \in DOMAIN objects_ :
              n \in DOMAIN objects_' /\ objects_'[n] = objects_[n]
        /\ Cardinality(DOMAIN objects_') =
              Cardinality(DOMAIN objects_) + IF Registers THEN 1 ELSE 0

C16_AppendOnly == [][C16_AppendOnlyRound]_vars

(* C16 as the code has it: during a run no registry entry is removed; a    *)
(* completed stage that publishes a result v that is not a class under the *)
(* name a makes the registry map a to v, one entry more if a was not       *)
(* registered, the old value replaced if it was, the other entries as they *)
(* were; every other stage leaves the registry as it is.                   *)
C16_RebindingRound ==
    runState = "running" =>
        IF Registers
        THEN LET a == Current.attribute_name.v
                 v == calls'[Len(calls) + 1].ret
             IN /\ DOMAIN objects_' = DOMAIN objects_ \cup {a}
                /\ objects_'[a] = v
                /\ \A n \in DOMAIN objects_ \ {a} : objects_'[n] = objects_[n]
                /\ Cardinality(DOMAIN objects_') =
                      Cardinality(DOMAIN objects_)
                         + IF a \in DOMAIN objects_ THEN 0 ELSE 1
        ELSE objects_' = objects_

C16_Rebinding == [][C16_RebindingRound]_vars

(* Two class-steps of one run published under the same name: the registry  *)
(* holds the second instance.                                              *)
C16_Witness ==
    /\ runState = "running" /\ runs = 1 /\ pos >= 2
    /\ ClassStep(pipeline[1]) /\ pipeline[1].attribute_name = Str("obj")
    /\ ClassStep(pipeline[2]) /\ pipeline[2].attribute_name = Str("obj")
    /\ DOMAIN objects_ = {"host", "obj"}
    /\ objects_["obj"] = Inst("SomeClass", 2)

(* C17: run() on an empty stage list fails with an AssertionError before   *)
(* anything else: no progress bar, no call, host and registry as before.   *)
C17_Round ==
    (runs' = runs + 1 /\ pipeline = <<>>) =>
        /\ raised' = Raise("AssertionError", <<>>)
        /\ runState' = "failed"
        /\ pbar' = pbar
        /\ calls' = calls
        /\ pipeline' = pipeline
        /\ hostAttrs' = hostAttrs /\ objects_' = objects_

C17_EmptyRun == [][C17_Round]_vars

C17_Witness ==
    /\ runs = 1
    /\ pipeline = <<>>
    /\ runState = "failed"
    /\ raised.exc = "AssertionError"
    /\ pbar = NoPbar
    /\ calls = <<>>

(* C19: progress is begun once with the number of stages before the first  *)
(* stage, advanced by one after each stage, and ended once after the last; *)
(* every run that begins progress ends it.                                 *)
C19_ProgressProtocol ==
    /\ runState = "running" =>
          /\ pbar.state = "open"
          /\ pbar.total = Len(pipeline)
          /\ pbar.n = pos
    /\ runState = "done" => pbar.n = Len(pipeline) /\ pbar.total = Len(pipeline)
    /\ pbar.created - pbar.closed = IF runState = "running" THEN 1 ELSE 0

----------------------------------------------------------------------------
(* Properties of from_list and from_config.                                *)

(* C15: every Stage of the stage list has a method name or a class.        *)
C15_StageInvariant ==
    \A i \in DOMAIN pipeline :
        ~IsNone(pipeline[i].method_name) \/ ~IsNone(pipeline[i].class_name)

KnownKeys == {"attribute", "method", "class", "arguments"}

ItemsOf(config) ==
    UNION {{config[i].items[j] : j \in DOMAIN config[i].items} : i \in DOMAIN config}

UnknownKeys(config) == {it \in ItemsOf(config) : it.key \notin KnownKeys}

MissingClasses(config) ==
    {it \in ItemsOf(config) :
        it.key = "class" /\ it.value.v \notin DOMAIN ModuleAttrs(CallerModule)}

(* C18: from_config on a configuration with an unknown key fails with a    *)
(* ValueError naming the key, with a class the caller's module does not    *)
(* have it fails with an error naming the class and the module; either     *)
(* way the stage list is what it was before the call.                      *)
C18_Round ==
    \A config \in Configs :
        (FromConfig(config)
           /\ UnknownKeys(config) \cup MissingClasses(config) # {}) =>
            /\ pipeline' = pipeline
            /\ \/ \E it \in UnknownKeys(config) :
                     raised' = Raise("ValueError", <<Str(it.key)>>)
               \/ \E it \in MissingClasses(config) :
                     raised' = Raise("AttributeError", <<it.value, Str(CallerModule)>>)
            /\ MissingClasses(config) = {} => raised'.exc = "ValueError"
            /\ UnknownKeys(config) = {} => raised'.exc = "AttributeError"

C18_AllOrNothing == [][C18_Round]_vars

(* A stage list of two stages survived a configuration naming a class the  *)
(* module does not have.                                                   *)
C18_Witness ==
    /\ raised = Raise("AttributeError", <<Str("Missing"), Str(CallerModule)>>)
    /\ Len(pipeline) = 2
    /\ pipeline[1].method_name = Str("method_name")

----------------------------------------------------------------------------
(* Properties of run() on paths and on names that are hard to resolve.     *)

(* Attribute access from obj along the segments reaches a value.           *)
RECURSIVE Reaches(_, _)
Reaches(obj, parts) ==
    IF parts = <<>> THEN TRUE
    ELSE /\ HasAttr(obj, parts[1])
         /\ Reaches(GetAttr(obj, parts[1]), Tail(parts))

DeepPath(stage) ==
    /\ IsStr(stage.method_name) /\ IsNone(stage.class_name)
    /\ Len(Split(stage.method_name.v)) >= 3
    /\ ~HasAttr(HostObj, stage.method_name.v)
    /\ stage.method_name.v \notin DOMAIN PipelineMembers \cup DOMAIN Globals

(* C21: a stage whose method name is a path of three or more segments that *)
(* exists from the host on is executed: the run does not stop at it, and   *)
(* the callable it invoked is the member the path ends in.                 *)
C21_DeepPathRuns ==
    /\ (/\ runState = "failed" /\ pos < Len(pipeline)
         /\ DeepPath(Current)
         /\ Reaches(HostObj, Split(Current.method_name.v)))
       => FALSE
    /\ \A j \in DOMAIN calls :
          DeepPath(pipeline[calls[j].at]) =>
              calls[j].callable.m =
                  Split(pipeline[calls[j].at].method_name.v)[
                      Len(Split(pipeline[calls[j].at].method_name.v))]

Unknown(name) ==
    /\ ~HasAttr(HostObj, name)
    /\ name \notin DOMAIN PipelineMembers \cup DOMAIN Globals

(* The names the claim is about: no separator and known to no scope, or    *)
(* 'obj.member' with no obj on the host.                                   *)
Unresolvable(stage) ==
    /\ IsStr(stage.method_name) /\ IsNone(stage.class_name)
    /\ Unknown(stage.method_name.v)
    /\ \/ ~HasDot(stage.method_name.v)
       \/ /\ Len(Split(stage.method_name.v)) = 2
          /\ ~HasAttr(HostObj, Split(stage.method_name.v)[1])

(* C22: a run that reaches a stage with an unresolvable method name fails  *)
(* there with a ValueError, the callable not invoked.                      *)
C22_Round ==
    (runState = "running" /\ pos < Len(pipeline) /\ Unresolvable(Current)) =>
        /\ runState' = "failed"
        /\ raised'.exc = "ValueError"
        /\ calls' = calls
        /\ pos' = pos

C22_UnresolvableIsValueError == [][C22_Round]_vars

----------------------------------------------------------------------------
(* Properties of the stage list over the life of a Pipeline.               *)

(* C23: no two Stages of the stage list have the same sequence index, and  *)
(* the Stage at position i (counted from 0) has the index i.               *)
C23_IndexIsPosition ==
    /\ \A i \in DOMAIN pipeline : pipeline[i].num = i - 1
    /\ \A i, j \in DOMAIN pipeline : pipeline[i].num = pipeline[j].num => i = j

(* The fields of a Stage that say which step it is.                        *)
SameStage(a, b) ==
    /\ a.num = b.num /\ a.id = b.id
    /\ a.attribute_name = b.attribute_name /\ a.method_name = b.method_name
    /\ a.class_name = b.class_name /\ a.arguments = b.arguments

Prefix(p, q) ==
    /\ Len(p) <= Len(q)
    /\ \A i \in DOMAIN p : SameStage(p[i], q[i])

(* C24: the stage list before any operation is a prefix of the stage list  *)
(* after it.                                                               *)
C24_NeverRemoved == [][Prefix(pipeline, pipeline')]_vars

(* The step is a from_config of this configuration that returned.          *)
Installs(config) ==
    /\ runState # "running" /\ nIds' = nIds /\ runs' = runs
    /\ raised'.exc = ""
    /\ ProcessConfig(config, CallerModule).exc = ""
    /\ FromConfig(config)

(* C24 as the code has it: from_list, run and show keep every Stage, the   *)
(* list before is a prefix of the list after; so does a from_config that   *)
(* raises. A from_config that returns makes the stages of the              *)
(* configuration the whole stage list.                                     *)
C24_Round ==
    IF \E config \in OneStepConfigs : Installs(config)
    THEN \E config \in OneStepConfigs :
            /\ Installs(config)
            /\ pipeline' = ProcessConfig(config, CallerModule).val
            /\ Len(pipeline') = Len(config)
    ELSE Prefix(pipeline, pipeline')

C24_ReplacedByConfig == [][C24_Round]_vars

(* A stage list that had been run was replaced by that of a configuration. *)
C24_Witness ==
    /\ runState = "idle" /\ raised.exc = ""
    /\ runs >= 1 /\ calls # <<>>
    /\ Len(pipeline) = 1
    /\ pipeline[1].id = StepId(1)
    /\ pipeline[1].method_call = NoneV
    /\ \E j \in DOMAIN calls : calls[j].callable = Bound("Host", "method_name", 0)
    /\ pipeline[1].class_name = TypeRef("SomeClass")

Unset(stage) == stage.method_call = NoneV /\ ~stage.parameters.set

(* C25: after from_list or from_config every Stage of the stage list has   *)
(* its cached callable and parameter map unset.                            *)
C25_UnsetAfterLoad ==
    runState = "idle" => \A i \in DOMAIN pipeline : Unset(pipeline[i])

(* C25 as the code has it: after from_list or from_config every Stage      *)
(* that call created has its cached callable and parameter map unset, a    *)
(* Stage kept from before the call is as it was; run() changes these two   *)
(* fields only, and only of the stage it has reached.                      *)
C25_Round ==
    /\ (runState # "running" /\ runs' = runs) =>
          \A i \in DOMAIN pipeline' :
              \/ i \in DOMAIN pipeline /\ pipeline'[i] = pipeline[i]
              \/ Unset(pipeline'[i])
    /\ runs' # runs => pipeline' = pipeline
    /\ runState = "running" =>
          /\ Len(pipeline') = Len(pipeline)
          /\ \A i \in DOMAIN pipeline :
                /\ SameStage(pipeline[i], pipeline'[i])
                /\ i # pos + 1 => pipeline'[i] = pipeline[i]

C25_LazyFrame == [][C25_Round]_vars

(* A stage declared after a run next to a stage that run has resolved.     *)
C25_Witness ==
    /\ runState = "idle" /\ runs = 1
    /\ Len(pipeline) = 2
    /\ pipeline[1].method_call = Bound("Host", "method_name", 0)
    /\ pipeline[1].parameters.set
    /\ Unset(pipeline[2])

----------------------------------------------------------------------------
(* Properties of the registry and of the order of a run.                   *)

(* C26: the registry entry under 'host' is the host object, in every state *)
(* from construction on; no stage rebinds or removes it.                   *)
C26_HostReserved ==
    /\ "host" \in DOMAIN objects_
    /\ objects_["host"] = HostObj

(* A method name that only the pipeline object knows, bound to a method.   *)
OwnMember(stage) ==
    /\ IsStr(stage.method_name) /\ IsNone(stage.class_name)
    /\ ~HasAttr(HostObj, stage.method_name.v)
    /\ stage.method_name.v \in DOMAIN PipelineMembers
    /\ PipelineMembers[stage.method_name.v].k = "bound"

(* The invocations of the current run, in the order they were made.        *)
CallsOfRun == SelectSeq(calls, LAMBDA c : c.run = runs)

(* C27: a round on a stage whose method name resolves to a member of the   *)
(* pipeline object invokes that one callable and moves to the next stage;  *)
(* a run that completes has invoked one callable per stage, in stage order.*)
C27_Round ==
    /\ (runState = "running" /\ pos < Len(pipeline) /\ OwnMember(Current)) =>
          /\ pos' = pos + 1
          /\ runState' = "running"
          /\ Len(NewCalls) = 1
    /\ (runState = "running" /\ runState' = "done") =>
          /\ Len(CallsOfRun) = Len(pipeline)
          /\ \A i \in DOMAIN CallsOfRun : CallsOfRun[i].at = i

C27_LinearRun == [][C27_Round]_vars

(* The names the stages before position i publish in the registry.         *)
PublishedBefore(i) ==
    {pipeline[j].attribute_name.v :
        j \in {n \in 1..i : IsStr(pipeline[n].attribute_name)}}

(* C28: while run() is at position pos, the registry holds only 'host' and *)
(* the names published by the stages before that position in this run.     *)
C28_NothingFromTheFuture ==
    runState = "running" =>
        DOMAIN objects_ \subseteq {"host"} \cup PublishedBefore(pos)

(* A stage (method_name, class) whose member is an instance method.        *)
MethodOfClass(stage) ==
    /\ IsStr(stage.method_name) /\ IsType(stage.class_name)
    /\ stage.method_name.v \in DOMAIN ClassMembers(stage.class_name.v)
    /\ ClassMembers(stage.class_name.v)[stage.method_name.v].k = "func"
    /\ FuncParams(ClassMembers(stage.class_name.v)[stage.method_name.v]) # <<>>
    /\ FuncParams(ClassMembers(stage.class_name.v)[stage.method_name.v])[1].name
           = "self"

(* C30: a round on a stage (method_name, class) invokes the method with a  *)
(* receiver: the call is made and the run does not stop at the stage for a *)
(* missing argument.                                                       *)
C30_Round ==
    (runState = "running" /\ pos < Len(pipeline) /\ MethodOfClass(Current)) =>
        /\ ~(runState' = "failed" /\ raised'.exc = "TypeError")
        /\ Len(NewCalls) = 1

C30_ReceiverSupplied == [][C30_Round]_vars

====
